---- MODULE Spec2Model ----
(***************************************************************************)
(* Model of the health-chat front end: the chat component ExpandableAIChat *)
(* (conversation session, response normalisation) and the page component   *)
(* Home (report upload panel).                                             *)
(*                                                                         *)
(* Text is a sequence of one-character strings, so that trim, split and    *)
(* serialisation are computed character by character.  A JSON value is a   *)
(* tagged record; an object keeps its fields in insertion order.           *)
(***************************************************************************)
EXTENDS Naturals, Integers, Sequences, FiniteSets, TLC

(***************************************************************************)
(* Bounds of the model.                                                    *)
(***************************************************************************)
\* total number of HTTP requests (create, chat, analyze-report) ever issued
MaxRequests == 3
\* number of fields of the objects given to extractContent
MaxFields == 2
\* length of the strings and of the lists given to toList
MaxLen == 3

(***************************************************************************)
(* JSON values, as JSON.parse and the JavaScript operators see them.       *)
(***************************************************************************)
Null == [t |-> "null"]
Undefined == [t |-> "undefined"]
Str(s) == [t |-> "str", s |-> s]
Num(n) == [t |-> "num", n |-> n]
Bool(b) == [t |-> "bool", b |-> b]
Arr(e) == [t |-> "arr", e |-> e]
Obj(f) == [t |-> "obj", f |-> f]

\* typeof v
TypeOf(v) ==
    CASE v.t = "str" -> "string"
      [] v.t = "num" -> "number"
      [] v.t = "bool" -> "boolean"
      [] v.t = "undefined" -> "undefined"
      [] OTHER -> "object"

\* k in d, for d of type object and not null
HasKey(d, k) == d.t = "obj" /\ \E i \in 1..Len(d.f) : d.f[i][1] = k

\* d.k, for d of type object and not null
Get(d, k) ==
    IF HasKey(d, k)
    THEN d.f[CHOOSE i \in 1..Len(d.f) : d.f[i][1] = k][2]
    ELSE Undefined

\* a ?? b
Coalesce(a, b) == IF a.t \in {"null", "undefined"} THEN b ELSE a

\* Object.values(d)
ObjectValues(d) ==
    CASE d.t = "obj" -> [i \in 1..Len(d.f) |-> d.f[i][2]]
      [] d.t = "arr" -> d.e
      [] d.t = "str" -> [i \in 1..Len(d.s) |-> Str(<<d.s[i]>>)]
      [] OTHER -> <<>>

\* !!v
Truthy(v) ==
    CASE v.t = "str" -> v.s # <<>>
      [] v.t = "num" -> v.n # 0
      [] v.t = "bool" -> v.b
      [] v.t \in {"null", "undefined"} -> FALSE
      [] OTHER -> TRUE

(***************************************************************************)
(* Text helpers.                                                           *)
(***************************************************************************)
Digit(n) == <<"0", "1", "2", "3", "4", "5", "6", "7", "8", "9">>[n + 1]

\* n.toString() for a non-negative integer
RECURSIVE NumToText(_)
NumToText(n) == IF n < 10 THEN <<Digit(n)>> ELSE NumToText(n \div 10) \o <<Digit(n % 10)>>

\* the characters String.prototype.trim removes (those the model uses)
IsSpace(c) == c \in {" ", "\n", "\t"}

RECURSIVE TrimStart(_)
TrimStart(s) == IF s # <<>> /\ IsSpace(Head(s)) THEN TrimStart(Tail(s)) ELSE s

RECURSIVE TrimEnd(_)
TrimEnd(s) ==
    IF s # <<>> /\ IsSpace(s[Len(s)]) THEN TrimEnd(SubSeq(s, 1, Len(s) - 1)) ELSE s

\* s.trim()
Trim(s) == TrimEnd(TrimStart(s))

RECURSIVE Spaces(_)
Spaces(n) == IF n = 0 THEN <<>> ELSE <<" ">> \o Spaces(n - 1)

\* the JSON string literal of a text
RECURSIVE Escape(_)
Escape(s) ==
    IF s = <<>> THEN <<>>
    ELSE (CASE Head(s) = "\n" -> <<"\\", "n">>
            [] Head(s) = "\t" -> <<"\\", "t">>
            [] Head(s) = "\"" -> <<"\\", "\"">>
            [] Head(s) = "\\" -> <<"\\", "\\">>
            [] OTHER -> <<Head(s)>>) \o Escape(Tail(s))

Quote(s) == <<"\"">> \o Escape(s) \o <<"\"">>

\* JSON.stringify(v, null, 2) of a value nested at indentation ind
RECURSIVE Stringify(_, _)
RECURSIVE StringifyItems(_, _, _)
StringifyItems(v, i, ind) ==
    LET n == IF v.t = "obj" THEN Len(v.f) ELSE Len(v.e)
        item == IF v.t = "obj"
                THEN Quote(v.f[i][1]) \o <<":", " ">> \o Stringify(v.f[i][2], ind + 2)
                ELSE Stringify(v.e[i], ind + 2)
    IN  IF i > n THEN <<>>
        ELSE Spaces(ind + 2) \o item
             \o (IF i < n THEN <<",">> ELSE <<>>) \o <<"\n">>
             \o StringifyItems(v, i + 1, ind)
Stringify(v, ind) ==
    CASE v.t = "str" -> Quote(v.s)
      [] v.t = "num" -> NumToText(v.n)
      [] v.t = "bool" -> IF v.b THEN <<"t", "r", "u", "e">> ELSE <<"f", "a", "l", "s", "e">>
      [] v.t = "obj" ->
            IF v.f = <<>> THEN <<"{", "}">>
            ELSE <<"{", "\n">> \o StringifyItems(v, 1, ind) \o Spaces(ind) \o <<"}">>
      [] v.t = "arr" ->
            IF v.e = <<>> THEN <<"[", "]">>
            ELSE <<"[", "\n">> \o StringifyItems(v, 1, ind) \o Spaces(ind) \o <<"]">>
      [] OTHER -> <<"n", "u", "l", "l">>

\* String(v); an array is its elements joined by commas, null and undefined
\* elements giving the empty text
RECURSIVE ToText(_)
RECURSIVE JoinTexts(_, _)
JoinTexts(e, i) ==
    IF i > Len(e) THEN <<>>
    ELSE (IF e[i].t \in {"null", "undefined"} THEN <<>> ELSE ToText(e[i]))
         \o (IF i < Len(e) THEN <<",">> ELSE <<>>) \o JoinTexts(e, i + 1)
ToText(v) ==
    CASE v.t = "str" -> v.s
      [] v.t = "num" -> NumToText(v.n)
      [] v.t = "bool" -> IF v.b THEN <<"t", "r", "u", "e">> ELSE <<"f", "a", "l", "s", "e">>
      [] v.t = "null" -> <<"n", "u", "l", "l">>
      [] v.t = "undefined" -> <<"u", "n", "d", "e", "f", "i", "n", "e", "d">>
      [] v.t = "arr" -> JoinTexts(v.e, 1)
      [] OTHER -> <<"[", "o", "b", "j", "e", "c", "t", " ", "O", "b", "j", "e", "c", "t", "]">>

\* s.startsWith(p)
StartsWith(s, p) == Len(s) >= Len(p) /\ SubSeq(s, 1, Len(p)) = p

(***************************************************************************)
(* Response normalisation.                                                 *)
(***************************************************************************)
K_response == <<"r", "e", "s", "p", "o", "n", "s", "e">>
K_message == <<"m", "e", "s", "s", "a", "g", "e">>
K_reply == <<"r", "e", "p", "l", "y">>
K_text == <<"t", "e", "x", "t">>
K_content == <<"c", "o", "n", "t", "e", "n", "t">>
K_summary == <<"s", "u", "m", "m", "a", "r", "y">>
K_abnormal_findings ==
    <<"a", "b", "n", "o", "r", "m", "a", "l", "_", "f", "i", "n", "d", "i", "n", "g", "s">>
K_urgency == <<"u", "r", "g", "e", "n", "c", "y">>
K_conversation_id ==
    <<"c", "o", "n", "v", "e", "r", "s", "a", "t", "i", "o", "n", "_", "i", "d">>
K_id == <<"i", "d">>
K__id == <<"_", "i", "d">>

isStructuredReport(data) ==
    IF TypeOf(data) # "object" \/ data = Null THEN FALSE
    ELSE HasKey(data, K_summary) \/ HasKey(data, K_abnormal_findings)
         \/ HasKey(data, K_urgency)

\* FirstNestedReport that takes the last such value
LastNestedReport(d) ==
    LET vs == ObjectValues(d)
        hits == {i \in 1..Len(vs) : isStructuredReport(vs[i])}
    IN  IF hits = {} THEN Undefined
        ELSE vs[CHOOSE i \in hits : \A j \in hits : i >= j]

\* the first value of the object that is a structured report, if any
FirstNestedReport(d) ==
    LET vs == ObjectValues(d)
        hits == {i \in 1..Len(vs) : isStructuredReport(vs[i])}
    IN  IF hits = {} THEN Undefined
        ELSE vs[CHOOSE i \in hits : \A j \in hits : i <= j]

\* extractContent that returns an unrecognised object as it is
extractContentRaw(data) ==
    IF TypeOf(data) = "string" THEN data
    ELSE IF data = Null \/ data = Undefined THEN Str(<<>>)
    ELSE IF TypeOf(data) = "object" THEN
        LET top == Coalesce(Get(data, K_response),
                   Coalesce(Get(data, K_message),
                   Coalesce(Get(data, K_reply),
                   Coalesce(Get(data, K_text), Get(data, K_content)))))
        IN  IF TypeOf(top) = "string" THEN top
            ELSE IF isStructuredReport(data) THEN data
            ELSE IF FirstNestedReport(data) # Undefined THEN FirstNestedReport(data)
            ELSE data
    ELSE Str(ToText(data))

\* extractContent that looks for a report before it looks for a reply key
extractContentReportFirst(data) ==
    IF TypeOf(data) = "string" THEN data
    ELSE IF data = Null \/ data = Undefined THEN Str(<<>>)
    ELSE IF TypeOf(data) = "object" THEN
        LET top == Coalesce(Get(data, K_response),
                   Coalesce(Get(data, K_message),
                   Coalesce(Get(data, K_reply),
                   Coalesce(Get(data, K_text), Get(data, K_content)))))
        IN  IF isStructuredReport(data) THEN data
            ELSE IF TypeOf(top) = "string" THEN top
            ELSE IF FirstNestedReport(data) # Undefined THEN FirstNestedReport(data)
            ELSE Str(Stringify(data, 0))
    ELSE Str(ToText(data))

\* extractContent that trims the strings it is given
extractContentTrimmed(data) ==
    IF TypeOf(data) = "string" THEN Str(Trim(data.s))
    ELSE IF data = Null \/ data = Undefined THEN Str(<<>>)
    ELSE IF TypeOf(data) = "object" THEN
        LET top == Coalesce(Get(data, K_response),
                   Coalesce(Get(data, K_message),
                   Coalesce(Get(data, K_reply),
                   Coalesce(Get(data, K_text), Get(data, K_content)))))
        IN  IF TypeOf(top) = "string" THEN top
            ELSE IF isStructuredReport(data) THEN data
            ELSE IF FirstNestedReport(data) # Undefined THEN FirstNestedReport(data)
            ELSE Str(Stringify(data, 0))
    ELSE Str(ToText(data))

\* extractContent that looks at the values of the object before the object
extractContentNestedFirst(data) ==
    IF TypeOf(data) = "string" THEN data
    ELSE IF data = Null \/ data = Undefined THEN Str(<<>>)
    ELSE IF TypeOf(data) = "object" THEN
        LET top == Coalesce(Get(data, K_response),
                   Coalesce(Get(data, K_message),
                   Coalesce(Get(data, K_reply),
                   Coalesce(Get(data, K_text), Get(data, K_content)))))
        IN  IF TypeOf(top) = "string" THEN top
            ELSE IF FirstNestedReport(data) # Undefined THEN FirstNestedReport(data)
            ELSE IF isStructuredReport(data) THEN data
            ELSE Str(Stringify(data, 0))
    ELSE Str(ToText(data))

\* extractContent that converts an unrecognised object with String
extractContentToString(data) ==
    IF TypeOf(data) = "string" THEN data
    ELSE IF data = Null \/ data = Undefined THEN Str(<<>>)
    ELSE IF TypeOf(data) = "object" THEN
        LET top == Coalesce(Get(data, K_response),
                   Coalesce(Get(data, K_message),
                   Coalesce(Get(data, K_reply),
                   Coalesce(Get(data, K_text), Get(data, K_content)))))
        IN  IF TypeOf(top) = "string" THEN top
            ELSE IF isStructuredReport(data) THEN data
            ELSE IF FirstNestedReport(data) # Undefined THEN FirstNestedReport(data)
            ELSE Str(ToText(data))
    ELSE Str(ToText(data))

extractContent(data) ==
    IF TypeOf(data) = "string" THEN data
    ELSE IF data = Null \/ data = Undefined THEN Str(<<>>)
    ELSE IF TypeOf(data) = "object" THEN
        LET top == Coalesce(Get(data, K_response),
                   Coalesce(Get(data, K_message),
                   Coalesce(Get(data, K_reply),
                   Coalesce(Get(data, K_text), Get(data, K_content)))))
        IN  IF TypeOf(top) = "string" THEN top
            ELSE IF isStructuredReport(data) THEN data
            ELSE IF FirstNestedReport(data) # Undefined THEN FirstNestedReport(data)
            ELSE Str(Stringify(data, 0))
    ELSE Str(ToText(data))

(***************************************************************************)
(* The report card: list coercion of the fields of a structured report.    *)
(***************************************************************************)
K_recommended_tests ==
    <<"r", "e", "c", "o", "m", "m", "e", "n", "d", "e", "d", "_", "t", "e", "s", "t", "s">>
K_lifestyle_suggestions ==
    <<"l", "i", "f", "e", "s", "t", "y", "l", "e", "_",
      "s", "u", "g", "g", "e", "s", "t", "i", "o", "n", "s">>

\* the characters of the class [\n;]
IsSeparator(c) == c \in {"\n", ";"}

\* the character U+2022 (bullet), which is one element of a text
BulletChar == "u2022"

\* the characters of the class of the bullet markers: - * and U+2022
IsBullet(c) == c \in {"-", BulletChar, "*"}

\* s.split(/[\n;]/)
RECURSIVE Split(_)
Split(s) ==
    LET hits == {i \in 1..Len(s) : IsSeparator(s[i])}
        first == CHOOSE i \in hits : \A j \in hits : i <= j
    IN  IF hits = {} THEN <<s>>
        ELSE <<SubSeq(s, 1, first - 1)>> \o Split(SubSeq(s, first + 1, Len(s)))

\* s.replace(/^[-*U+2022]\s*/, "")
StripBullet(s) == IF s # <<>> /\ IsBullet(Head(s)) THEN TrimStart(Tail(s)) ELSE s

\* toList that keeps the falsy entries of a list
toListKeepAll(val) ==
    IF ~Truthy(val) THEN <<>>
    ELSE IF val.t = "arr" THEN val.e
    ELSE LET segments == Split(val.s)
             cleaned == [i \in 1..Len(segments) |-> Str(Trim(StripBullet(segments[i])))]
         IN  SelectSeq(cleaned, Truthy)

\* toList: the list of the entries of a field that is a string, a list or absent
toList(val) ==
    IF ~Truthy(val) THEN <<>>
    ELSE IF val.t = "arr" THEN SelectSeq(val.e, Truthy)
    ELSE LET segments == Split(val.s)
             cleaned == [i \in 1..Len(segments) |-> Str(Trim(StripBullet(segments[i])))]
         IN  SelectSeq(cleaned, Truthy)

\* ReportCard: the lists it renders
ReportCard(report) ==
    [abnormal |-> toList(Get(report, K_abnormal_findings)),
     tests |-> toList(Get(report, K_recommended_tests)),
     lifestyle |-> toList(Get(report, K_lifestyle_suggestions))]

(***************************************************************************)
(* Fixed texts of the program.                                             *)
(***************************************************************************)
\* the assistant message of a failed send
FallbackText ==
    <<"S", "o", "r", "r", "y", ",", " ", "c", "o", "u", "l", "d", "n", "'", "t", " ",
      "r", "e", "a", "c", "h", " ", "t", "h", "e", " ", "s", "e", "r", "v", "e", "r", ".">>
\* runAnalysis: the content of the user message when the prompt is empty
DefaultShownPrompt ==
    <<"A", "n", "a", "l", "y", "z", "e", " ", "t", "h", "i", "s", " ",
      "r", "e", "p", "o", "r", "t">>
\* runAnalysis: the message field of the form when the prompt is empty
DefaultSentPrompt ==
    <<"P", "l", "e", "a", "s", "e", " ", "a", "n", "a", "l", "y", "z", "e", " ",
      "t", "h", "i", "s", " ", "m", "e", "d", "i", "c", "a", "l", " ",
      "r", "e", "p", "o", "r", "t", ".">>
\* Home.handleAnalyze: the prompt passed on when the note is empty
HomeDefaultPrompt ==
    <<"P", "l", "e", "a", "s", "e", " ", "a", "n", "a", "l", "y", "z", "e", " ",
      "t", "h", "i", "s", " ", "m", "e", "d", "i", "c", "a", "l", " ",
      "r", "e", "p", "o", "r", "t", ".">>
ImagePrefix == <<"i", "m", "a", "g", "e", "/">>

\* p || d
OrDefault(p, d) == IF p # <<>> THEN p ELSE d

(***************************************************************************)
(* Inputs: what the user can type and pick, what the service can answer.   *)
(***************************************************************************)
File(name, type) == [name |-> name, type |-> type]
PngFile ==
    File(<<"r", "e", "p", "o", "r", "t", ".", "p", "n", "g">>,
         <<"i", "m", "a", "g", "e", "/", "p", "n", "g">>)
PdfFile ==
    File(<<"n", "o", "t", "e", "s", ".", "p", "d", "f">>,
         <<"a", "p", "p", "l", "i", "c", "a", "t", "i", "o", "n", "/", "p", "d", "f">>)
GifFile ==
    File(<<"s", "c", "a", "n", ".", "g", "i", "f">>,
         <<"i", "m", "a", "g", "e", "/", "g", "i", "f">>)
\* the files a user can drop, or pick in a file dialog: the accept attribute of
\* a file input sets the filter the dialog opens with, which the user can change
Files == {PngFile, GifFile, PdfFile}
\* the content types named by the accept attribute of both file inputs
AcceptedTypes ==
    { <<"i", "m", "a", "g", "e", "/", "p", "n", "g">>,
      <<"i", "m", "a", "g", "e", "/", "j", "p", "e", "g">>,
      <<"i", "m", "a", "g", "e", "/", "w", "e", "b", "p">> }
\* the files picked with the chat's paperclip or handed to its handle
ChatFiles == {PngFile}

\* texts of the chat input: empty, blank, and a text with padding
Drafts == {<<>>, <<" ">>, <<"h", "i", " ">>}
\* the readings of Date.now(), in milliseconds: two adjacent ones; the clock
\* is seen only when a handler reads it
ClockReadings == {0, 1}
\* notes of the upload panel
Prompts == {<<>>, <<"n">>}
\* prompts a parent passes to the analyzeReport handle
HandlePrompts == {<<"h", "i">>}

\* an answer to a request: the fetch rejects, or resolves with a status (ok: 2xx)
\* and a body that res.json() parses or not
Rejected == [net |-> FALSE]
Resolved(ok, body) == [net |-> TRUE, ok |-> ok, json |-> TRUE, body |-> body]
ResolvedUnparseable(ok) == [net |-> TRUE, ok |-> ok, json |-> FALSE, body |-> Undefined]

\* answers to a chat or analyze-report request: a network error, a report, an
\* HTTP error with a JSON body, and an HTTP error with a body that is no JSON
SendReplies ==
    { Rejected,
      Resolved(TRUE, Obj(<< <<K_summary, Str(<<"o", "k">>)>> >>)),
      Resolved(FALSE, Obj(<< <<<<"d", "e", "t", "a", "i", "l">>, Str(<<"n", "o">>)>> >>)),
      ResolvedUnparseable(FALSE) }

\* answers to the k-th create-conversation request (the one of the mount is the
\* first, each clearChat issues the next): a network error, an HTTP error with a
\* body that is no JSON, or the id of the conversation the service created for it
CreateReplies(k) ==
    { Rejected,
      ResolvedUnparseable(FALSE),
      Resolved(TRUE, Obj(<< <<K_conversation_id, Str(<<"c">> \o NumToText(k))>> >>)) }

\* the reply keys of extractContent, in the order of its ?? chain
ReplyKeys == <<K_response, K_message, K_reply, K_text, K_content>>

\* two structured reports, and an object that holds one a level further down
SummaryReport == Obj(<< <<K_summary, Str(<<"o", "k">>)>> >>)
UrgencyReport == Obj(<< <<K_urgency, Str(<<"l", "o", "w">>)>> >>)
DeepReport == Obj(<< <<<<"k">>, SummaryReport>> >>)

\* the keys and the values of the fields of the objects given to extractContent
FieldKeys == {K_response, K_message, K_reply, K_text, K_content, K_summary, <<"k">>}
FieldValues ==
    {Null, Str(<<>>), Str(<<"x">>), Num(1), SummaryReport, UrgencyReport, DeepReport}

\* the objects of at most n fields, no key twice, in every order of the fields
Objects(n) ==
    LET Fields == FieldKeys \X FieldValues
        Seqs == UNION {[1..m -> Fields] : m \in 0..n}
    IN  {Obj(f) : f \in {g \in Seqs : \A i, j \in 1..Len(g) : i # j => g[i][1] # g[j][1]}}

\* a report with a field that is a string and a field that is a list
ListedReport ==
    Obj(<< <<K_abnormal_findings, Str(<<"a", ";", " ", "b">>)>>,
           <<K_recommended_tests, Arr(<<Str(<<"x">>), Str(<<>>)>>)>> >>)

\* values of the other JSON types, undefined, and a report with lists
OtherInputs ==
    {ListedReport, Null, Undefined, Str(<<>>), Str(<<"x">>), Str(<<" ", "h", "i", "\n">>),
     Num(0), Num(7), Bool(TRUE), Bool(FALSE),
     Arr(<<>>), Arr(<<UrgencyReport>>), Arr(<<Num(1), Str(<<"x">>)>>)}

\* what extractContent is given
JsonInputs == Objects(MaxFields) \cup OtherInputs

\* the keys of the ?? chain of createConversation, in its order
IdKeys == <<K_conversation_id, K_id, K__id>>

\* a response body with all the keys, the first two of the chain holding null
NullsFirstBody ==
    Obj(<< <<<<"k">>, Str(<<"z">>)>>, <<K__id, Str(<<"b">>)>>,
           <<K_id, Null>>, <<K_conversation_id, Null>> >>)

\* the response bodies of at most n fields, no key twice, in every order
IdObjects(n) ==
    LET Fields == {K_conversation_id, K_id, K__id, <<"k">>}
                      \X {Null, Str(<<>>), Str(<<"a">>), Str(<<"b">>), Num(0)}
        Seqs == UNION {[1..m -> Fields] : m \in 0..n}
    IN  {Obj(f) : f \in {g \in Seqs : \A i, j \in 1..Len(g) : i # j => g[i][1] # g[j][1]}}

\* what createConversation reads the id from
IdInputs == IdObjects(MaxFields) \cup {NullsFirstBody}

\* the characters of the strings given to toList
ListChars == {"a", " ", ";", "\n", "-", "*"}

\* the texts of at most n characters
Texts(n) == UNION {[1..m -> ListChars] : m \in 0..n}

\* the lists of at most n entries, empty entries among them
Lists(n) == UNION {[1..m -> {Str(<<>>), Str(<<"x">>), Str(<<"y">>)}] : m \in 0..n}

\* a text of several segments, with separators of both kinds and a bullet
SampleText == <<"a", ";", " ", "b", "\n", "-", " ", "c">>

\* what toList is given: a string, a list, or undefined (an absent field)
ListInputs ==
    {Str(s) : s \in Texts(MaxLen) \cup {SampleText, <<BulletChar, " ", "a">>}}
        \cup {Arr(e) : e \in Lists(MaxLen)} \cup {Undefined}

(***************************************************************************)
(* State.                                                                  *)
(***************************************************************************)
VARIABLES
    value,            \* ExpandableAIChat: the draft text of the chat input
    messages,         \* ExpandableAIChat: the transcript
    isTyping,         \* ExpandableAIChat: the typing indicator
    conversationId,   \* ExpandableAIChat: Null, or Str(id)
    pendingFile,      \* ExpandableAIChat: Null, or the file attached to the draft
    file,             \* Home: Null, or the file selected in the upload panel
    prompt,           \* Home: the note of the upload panel
    inflight,         \* the requests issued and not yet answered
    issued,           \* the number of requests issued so far
    epoch,            \* the number of calls of clearChat so far
    now,              \* the latest reading of Date.now()
    event             \* the handler that ran last, with its inputs and outcome

\* the event of a handler that issues and answers no request
Quiet == [op |-> "input"]

chatVars == <<value, messages, isTyping, conversationId, pendingFile>>
homeVars == <<file, prompt>>
netVars == <<inflight, issued>>
vars == <<value, messages, isTyping, conversationId, pendingFile, file, prompt,
          inflight, issued, epoch, now, event>>

\* a request in flight: its number, its endpoint (kind and the conversation id of
\* the URL), its payload, and where the session was when it was issued (the
\* number of clearChat calls before it, the length of the transcript after it)
Request(kind, cid, message, f) ==
    [n |-> issued + 1, kind |-> kind, cid |-> cid, message |-> message, file |-> f,
     epoch |-> epoch, at |-> Len(messages) + (IF kind = "create" THEN 0 ELSE 1)]

UserMessage(t, content, fileName) ==
    [id |-> NumToText(t), role |-> "user", content |-> Str(content),
     fileName |-> fileName]

AssistantMessage(t, content) ==
    [id |-> NumToText(t + 1), role |-> "assistant", content |-> content,
     fileName |-> Undefined]

\* ConversationIdOf that looks at id before conversation_id
ConversationIdOfIdFirst(data) ==
    LET vs == ObjectValues(data)
        first == IF vs = <<>> THEN Undefined ELSE vs[1]
    IN  ToText(Coalesce(Get(data, K_id),
               Coalesce(Get(data, K_conversation_id),
               Coalesce(Get(data, K__id), first))))

\* createConversation: the id it returns for a parsed response body
ConversationIdOf(data) ==
    LET vs == ObjectValues(data)
        first == IF vs = <<>> THEN Undefined ELSE vs[1]
    IN  ToText(Coalesce(Get(data, K_conversation_id),
               Coalesce(Get(data, K_id),
               Coalesce(Get(data, K__id), first))))

\* createConversation throws: the fetch rejects, the body does not parse, or the
\* body is null (reading a property of null)
CreateThrows(reply) == ~reply.net \/ ~reply.json \/ reply.body = Null

\* the try block of a send throws: the fetch rejects or the body does not parse
SendThrows(reply) == ~reply.net \/ ~reply.json

Init ==
    /\ value = <<>>
    /\ messages = <<>>
    /\ isTyping = FALSE
    /\ conversationId = Null
    /\ pendingFile = Null
    /\ file = Null
    /\ prompt = <<>>
    \* the mount effect has issued the first create-conversation request
    /\ inflight = {[n |-> 1, kind |-> "create", cid |-> <<>>, message |-> <<>>,
                    file |-> Null, epoch |-> 0, at |-> 0]}
    /\ issued = 1
    /\ epoch = 0
    /\ now = 0
    /\ event = [op |-> "mount"]

(***************************************************************************)
(* ExpandableAIChat: the handlers.                                         *)
(***************************************************************************)
\* onChange of the textarea, and the suggestion buttons
setValue(v) ==
    /\ value' = v
    /\ event' = Quiet
    /\ UNCHANGED <<messages, isTyping, conversationId, pendingFile, homeVars, netVars,
                   epoch, now>>

\* the paperclip picker; f = Null when the dialog yields no file
handleFileChange(f) ==
    /\ pendingFile' = IF f # Null THEN f ELSE pendingFile
    /\ event' = Quiet
    /\ UNCHANGED <<value, messages, isTyping, conversationId, homeVars, netVars,
                   epoch, now>>

\* the X button of the pending attachment (rendered while one is pending)
removePendingFile ==
    /\ pendingFile # Null
    /\ pendingFile' = Null
    /\ event' = Quiet
    /\ UNCHANGED <<value, messages, isTyping, conversationId, homeVars, netVars,
                   epoch, now>>

\* Date.now() returns t: time does not run backwards
Reads(t) == t \in ClockReadings /\ t >= now /\ now' = t

\* runAnalysisAccepted with a user message that does not name the file
runAnalysisAcceptedNoFileName(f, p, t) ==
    /\ issued < MaxRequests
    /\ Reads(t)
    /\ messages' = Append(messages,
                          UserMessage(t, OrDefault(p, DefaultShownPrompt), Undefined))
    /\ isTyping' = TRUE
    /\ inflight' = inflight \cup
          {Request("analyze", conversationId.s, OrDefault(p, DefaultSentPrompt), f)}
    /\ issued' = issued + 1

\* runAnalysis past its guard: the user message, the indicator, the request
runAnalysisAccepted(f, p, t) ==
    /\ issued < MaxRequests
    /\ Reads(t)
    /\ messages' = Append(messages,
                          UserMessage(t, OrDefault(p, DefaultShownPrompt), Str(f.name)))
    /\ isTyping' = TRUE
    /\ inflight' = inflight \cup
          {Request("analyze", conversationId.s, OrDefault(p, DefaultSentPrompt), f)}
    /\ issued' = issued + 1

\* the analyzeReport handle exposed to the parent: runAnalysis with its guard
analyzeReport(f, m, t) ==
    /\ \/ /\ ~Truthy(conversationId)
          /\ event' = [op |-> "analyzeReport", outcome |-> "rejected",
                       file |-> f, message |-> m]
          /\ UNCHANGED <<messages, isTyping, netVars, now>>
       \/ /\ Truthy(conversationId)
          /\ runAnalysisAccepted(f, m, t)
          /\ event' = [op |-> "analyzeReport", outcome |-> "analyze",
                       file |-> f, message |-> m]
    /\ UNCHANGED <<value, conversationId, pendingFile, homeVars, epoch>>

\* sendMessage that tests the draft without trimming it
sendMessageNoTrim(t) ==
    LET text == Trim(value) IN
    \/ /\ (value = <<>> /\ pendingFile = Null) \/ ~Truthy(conversationId)
       /\ event' = [op |-> "sendMessage", outcome |-> "rejected"]
       /\ UNCHANGED <<chatVars, homeVars, netVars, epoch, now>>
    \/ /\ ~(value = <<>> /\ pendingFile = Null) /\ Truthy(conversationId)
       /\ pendingFile # Null
       /\ pendingFile' = Null
       /\ value' = <<>>
       /\ runAnalysisAccepted(pendingFile, text, t)
       /\ event' = [op |-> "sendMessage", outcome |-> "analyze"]
       /\ UNCHANGED <<conversationId, homeVars, epoch>>
    \/ /\ ~(value = <<>> /\ pendingFile = Null) /\ Truthy(conversationId)
       /\ pendingFile = Null
       /\ issued < MaxRequests
       /\ Reads(t)
       /\ messages' = Append(messages, UserMessage(t, text, Undefined))
       /\ value' = <<>>
       /\ isTyping' = TRUE
       /\ inflight' = inflight \cup {Request("chat", conversationId.s, text, Null)}
       /\ issued' = issued + 1
       /\ event' = [op |-> "sendMessage", outcome |-> "chat"]
       /\ UNCHANGED <<conversationId, pendingFile, homeVars, epoch>>

\* sendMessage that leaves the draft in place when it sends a pending file
sendMessageKeepsDraft(t) ==
    LET text == Trim(value) IN
    \/ /\ (text = <<>> /\ pendingFile = Null) \/ ~Truthy(conversationId)
       /\ event' = [op |-> "sendMessage", outcome |-> "rejected"]
       /\ UNCHANGED <<chatVars, homeVars, netVars, epoch, now>>
    \/ /\ ~(text = <<>> /\ pendingFile = Null) /\ Truthy(conversationId)
       /\ pendingFile # Null
       /\ pendingFile' = Null
       /\ runAnalysisAccepted(pendingFile, text, t)
       /\ event' = [op |-> "sendMessage", outcome |-> "analyze"]
       /\ UNCHANGED <<value, conversationId, homeVars, epoch>>
    \/ /\ ~(text = <<>> /\ pendingFile = Null) /\ Truthy(conversationId)
       /\ pendingFile = Null
       /\ issued < MaxRequests
       /\ Reads(t)
       /\ messages' = Append(messages, UserMessage(t, text, Undefined))
       /\ value' = <<>>
       /\ isTyping' = TRUE
       /\ inflight' = inflight \cup {Request("chat", conversationId.s, text, Null)}
       /\ issued' = issued + 1
       /\ event' = [op |-> "sendMessage", outcome |-> "chat"]
       /\ UNCHANGED <<conversationId, pendingFile, homeVars, epoch>>

\* sendMessage: the send button (enabled by canSend) and the Enter key
sendMessage(t) ==
    LET text == Trim(value) IN
    \/ /\ (text = <<>> /\ pendingFile = Null) \/ ~Truthy(conversationId)
       /\ event' = [op |-> "sendMessage", outcome |-> "rejected"]
       /\ UNCHANGED <<chatVars, homeVars, netVars, epoch, now>>
    \/ /\ ~(text = <<>> /\ pendingFile = Null) /\ Truthy(conversationId)
       /\ pendingFile # Null
       /\ pendingFile' = Null
       /\ value' = <<>>
       /\ runAnalysisAccepted(pendingFile, text, t)
       /\ event' = [op |-> "sendMessage", outcome |-> "analyze"]
       /\ UNCHANGED <<conversationId, homeVars, epoch>>
    \/ /\ ~(text = <<>> /\ pendingFile = Null) /\ Truthy(conversationId)
       /\ pendingFile = Null
       /\ issued < MaxRequests
       /\ Reads(t)
       /\ messages' = Append(messages, UserMessage(t, text, Undefined))
       /\ value' = <<>>
       /\ isTyping' = TRUE
       /\ inflight' = inflight \cup {Request("chat", conversationId.s, text, Null)}
       /\ issued' = issued + 1
       /\ event' = [op |-> "sendMessage", outcome |-> "chat"]
       /\ UNCHANGED <<conversationId, pendingFile, homeVars, epoch>>

\* messages.map: the bubbles of the transcript as they are laid out, each with
\* its React key
Bubbles == [i \in 1..Len(messages) |-> [key |-> messages[i].id, msg |-> messages[i]]]

\* whether the send button is enabled
canSend == (Trim(value) # <<>> \/ pendingFile # Null) /\ Truthy(conversationId)

\* the connection status shown in the header ("Connecting" stands for the text
\* with its ellipsis)
StatusText == IF Truthy(conversationId) THEN "Online" ELSE "Connecting"

\* clearChat that leaves the pending attachment in place
clearChatKeepsFile ==
    /\ issued < MaxRequests
    /\ messages' = <<>>
    /\ conversationId' = Null
    /\ epoch' = epoch + 1
    /\ inflight' = inflight \cup
          {[n |-> issued + 1, kind |-> "create", cid |-> <<>>, message |-> <<>>,
            file |-> Null, epoch |-> epoch + 1, at |-> 0]}
    /\ issued' = issued + 1
    /\ event' = [op |-> "clearChat"]
    /\ UNCHANGED <<value, isTyping, pendingFile, homeVars, now>>

\* the New chat button
clearChat ==
    /\ issued < MaxRequests
    /\ messages' = <<>>
    /\ conversationId' = Null
    /\ pendingFile' = Null
    /\ epoch' = epoch + 1
    /\ inflight' = inflight \cup
          {[n |-> issued + 1, kind |-> "create", cid |-> <<>>, message |-> <<>>,
            file |-> Null, epoch |-> epoch + 1, at |-> 0]}
    /\ issued' = issued + 1
    /\ event' = [op |-> "clearChat"]
    /\ UNCHANGED <<value, isTyping, homeVars, now>>

(***************************************************************************)
(* Home: the handlers of the upload panel.                                 *)
(***************************************************************************)
\* a drop on the drop zone (rendered while no file is selected)
handleDrop(f) ==
    /\ file = Null
    /\ file' = IF f # Null /\ StartsWith(f.type, ImagePrefix) THEN f ELSE file
    /\ event' = Quiet
    /\ UNCHANGED <<chatVars, prompt, netVars, epoch, now>>

\* the file picker of the drop zone; f = Null when the dialog yields no file
handleInputChange(f) ==
    /\ file = Null
    /\ file' = IF f # Null THEN f ELSE file
    /\ event' = Quiet
    /\ UNCHANGED <<chatVars, prompt, netVars, epoch, now>>

\* the X button of the preview (rendered while a file is selected)
clearFile ==
    /\ file # Null
    /\ file' = Null
    /\ event' = Quiet
    /\ UNCHANGED <<chatVars, prompt, netVars, epoch, now>>

\* onChange of the note input (rendered while a file is selected)
setPrompt(p) ==
    /\ file # Null
    /\ prompt' = p
    /\ event' = Quiet
    /\ UNCHANGED <<chatVars, file, netVars, epoch, now>>

\* the Analyze Report button (rendered while a file is selected): it calls the
\* chat's analyzeReport handle, that is runAnalysis, then clears the panel
handleAnalyze(t) ==
    /\ file # Null
    /\ \/ /\ ~Truthy(conversationId)
          /\ event' = [op |-> "handleAnalyze", outcome |-> "rejected"]
          /\ UNCHANGED <<messages, isTyping, netVars, now>>
       \/ /\ Truthy(conversationId)
          /\ runAnalysisAccepted(file, OrDefault(prompt, HomeDefaultPrompt), t)
          /\ event' = [op |-> "handleAnalyze", outcome |-> "analyze"]
    /\ file' = Null
    /\ prompt' = <<>>
    /\ UNCHANGED <<value, conversationId, pendingFile, epoch>>

(***************************************************************************)
(* The service answers.                                                    *)
(***************************************************************************)
\* createDone that tries again when the creation failed
createDoneRetry(r, reply) ==
    /\ r \in inflight /\ r.kind = "create"
    /\ IF CreateThrows(reply) /\ issued < MaxRequests
       THEN /\ inflight' = (inflight \ {r}) \cup
                  {[n |-> issued + 1, kind |-> "create", cid |-> <<>>, message |-> <<>>,
                    file |-> Null, epoch |-> epoch, at |-> 0]}
            /\ issued' = issued + 1
       ELSE /\ inflight' = inflight \ {r}
            /\ issued' = issued
    /\ conversationId' = IF CreateThrows(reply) THEN conversationId
                         ELSE Str(ConversationIdOf(reply.body))
    /\ event' = [op |-> "createDone", n |-> r.n, reply |-> reply]
    /\ UNCHANGED <<value, messages, isTyping, pendingFile, homeVars, epoch, now>>

\* the continuation of createConversation, from the mount effect or clearChat
createDone(r, reply) ==
    /\ r \in inflight /\ r.kind = "create"
    /\ inflight' = inflight \ {r}
    /\ conversationId' = IF CreateThrows(reply) THEN conversationId
                         ELSE Str(ConversationIdOf(reply.body))
    /\ event' = [op |-> "createDone", n |-> r.n, reply |-> reply]
    /\ UNCHANGED <<value, messages, isTyping, pendingFile, homeVars, issued, epoch, now>>

\* sendDone that puts the assistant message at the head of the transcript
sendDonePrepend(r, reply, t) ==
    /\ r \in inflight /\ r.kind \in {"chat", "analyze"}
    /\ Reads(t)
    /\ inflight' = inflight \ {r}
    /\ messages' = <<AssistantMessage(t, IF SendThrows(reply) THEN Str(FallbackText)
                                         ELSE extractContent(reply.body))>> \o messages
    /\ isTyping' = FALSE
    /\ event' = [op |-> "sendDone", n |-> r.n, reply |-> reply]
    /\ UNCHANGED <<value, conversationId, pendingFile, homeVars, issued, epoch>>

\* sendDone that resets the indicator in the try block only (no finally)
sendDoneNoFinally(r, reply, t) ==
    /\ r \in inflight /\ r.kind \in {"chat", "analyze"}
    /\ Reads(t)
    /\ inflight' = inflight \ {r}
    /\ messages' = Append(messages,
          AssistantMessage(t, IF SendThrows(reply) THEN Str(FallbackText)
                              ELSE extractContent(reply.body)))
    /\ isTyping' = IF SendThrows(reply) THEN isTyping ELSE FALSE
    /\ event' = [op |-> "sendDone", n |-> r.n, reply |-> reply]
    /\ UNCHANGED <<value, conversationId, pendingFile, homeVars, issued, epoch>>

\* sendDone with a catch block that appends nothing
sendDoneSilentCatch(r, reply, t) ==
    /\ r \in inflight /\ r.kind \in {"chat", "analyze"}
    /\ Reads(t)
    /\ inflight' = inflight \ {r}
    /\ messages' = IF SendThrows(reply) THEN messages
                   ELSE Append(messages, AssistantMessage(t, extractContent(reply.body)))
    /\ isTyping' = FALSE
    /\ event' = [op |-> "sendDone", n |-> r.n, reply |-> reply]
    /\ UNCHANGED <<value, conversationId, pendingFile, homeVars, issued, epoch>>

\* the continuation of a chat or analyze-report request: try, catch, finally
sendDone(r, reply, t) ==
    /\ r \in inflight /\ r.kind \in {"chat", "analyze"}
    /\ Reads(t)
    /\ inflight' = inflight \ {r}
    /\ messages' = Append(messages,
          AssistantMessage(t, IF SendThrows(reply) THEN Str(FallbackText)
                              ELSE extractContent(reply.body)))
    /\ isTyping' = FALSE
    /\ event' = [op |-> "sendDone", n |-> r.n, reply |-> reply]
    /\ UNCHANGED <<value, conversationId, pendingFile, homeVars, issued, epoch>>

\* The chat component on its own: its handlers, its handle called by any parent,
\* the service.  Each handler that reads the clock gets a reading t.
Next ==
    \/ \E v \in Drafts : setValue(v)
    \/ \E f \in ChatFiles \cup {Null} : handleFileChange(f)
    \/ removePendingFile
    \/ \E t \in ClockReadings : sendMessage(t)
    \/ clearChat
    \/ \E f \in ChatFiles : \E m \in HandlePrompts : \E t \in ClockReadings :
          analyzeReport(f, m, t)
    \/ \E r \in inflight : \E reply \in CreateReplies(r.epoch + 1) : createDone(r, reply)
    \/ \E r \in inflight : \E reply \in SendReplies : \E t \in ClockReadings :
          sendDone(r, reply, t)

Spec == Init /\ [][Next]_vars

\* The clock is read only to make the ids of the messages.  The properties that
\* do not concern the ids are checked with every reading equal: all handlers run
\* within one millisecond.
UntimedReadings == {0}

UntimedNext ==
    \/ \E v \in Drafts : setValue(v)
    \/ \E f \in ChatFiles \cup {Null} : handleFileChange(f)
    \/ removePendingFile
    \/ \E t \in UntimedReadings : sendMessage(t)
    \/ clearChat
    \/ \E f \in ChatFiles : \E m \in HandlePrompts : \E t \in UntimedReadings :
          analyzeReport(f, m, t)
    \/ \E r \in inflight : \E reply \in CreateReplies(r.epoch + 1) : createDone(r, reply)
    \/ \E r \in inflight : \E reply \in SendReplies : \E t \in UntimedReadings :
          sendDone(r, reply, t)

UntimedSpec == Init /\ [][UntimedNext]_vars

\* The properties of progress are checked with one draft in addition: they do
\* not depend on the text sent.
FairDrafts == {<<"h", "i", " ">>}

\* and with two answers to each request, one that makes the handler throw and
\* one that does not: the network error and the 2xx response
FairSendReplies == {reply \in SendReplies : ~reply.net \/ reply.ok}
FairCreateReplies(k) == {reply \in CreateReplies(k) : ~reply.net \/ reply.ok}

FairNext ==
    \/ \E v \in FairDrafts : setValue(v)
    \/ \E f \in ChatFiles \cup {Null} : handleFileChange(f)
    \/ removePendingFile
    \/ \E t \in UntimedReadings : sendMessage(t)
    \/ clearChat
    \/ \E f \in ChatFiles : \E m \in HandlePrompts : \E t \in UntimedReadings :
          analyzeReport(f, m, t)
    \/ \E r \in inflight : \E reply \in FairCreateReplies(r.epoch + 1) : createDone(r, reply)
    \/ \E r \in inflight : \E reply \in FairSendReplies : \E t \in UntimedReadings :
          sendDone(r, reply, t)

\* every issued request is eventually answered
FairSpec ==
    /\ Init
    /\ [][FairNext]_vars
    /\ \A k \in 1..MaxRequests :
          WF_vars(\E r \in inflight :
                      \E reply \in FairCreateReplies(r.epoch + 1) \cup FairSendReplies :
                      \E t \in UntimedReadings :
                          r.n = k /\ (createDone(r, reply) \/ sendDone(r, reply, t)))

(***************************************************************************)
(* The page: Home with the chat in its right panel.  The parent calls the  *)
(* analyzeReport handle from handleAnalyze only; the files come from drops *)
(* and file dialogs; the service also answers a creation with an empty     *)
(* object.                                                                 *)
(***************************************************************************)
PageCreateReplies(k) == CreateReplies(k) \cup {Resolved(TRUE, Obj(<<>>))}

PageNext ==
    \/ \E f \in Files \cup {Null} : handleDrop(f)
    \/ \E f \in Files \cup {Null} : handleInputChange(f)
    \/ clearFile
    \/ \E p \in Prompts : setPrompt(p)
    \/ \E t \in UntimedReadings : handleAnalyze(t)
    \/ \E v \in FairDrafts : setValue(v)
    \/ \E f \in Files \cup {Null} : handleFileChange(f)
    \/ removePendingFile
    \/ \E t \in UntimedReadings : sendMessage(t)
    \/ clearChat
    \/ \E r \in inflight : \E reply \in PageCreateReplies(r.epoch + 1) :
          createDone(r, reply)
    \/ \E r \in inflight : \E reply \in FairSendReplies : \E t \in UntimedReadings :
          sendDone(r, reply, t)

PageSpec == Init /\ [][PageNext]_vars

(***************************************************************************)
(* The helpers on their own: extractContent, toList, the report card and   *)
(* the id extraction of createConversation, each applied to an input drawn *)
(* in the initial state.                                                   *)
(***************************************************************************)
HelperCalls ==
    {[op |-> "call", fn |-> "extractContent", arg |-> d] : d \in JsonInputs}
        \cup {[op |-> "call", fn |-> "toList", arg |-> v] : v \in ListInputs}
        \cup {[op |-> "call", fn |-> "createConversation", arg |-> d] : d \in IdInputs}

\* the mounted component, and a call about to be made
HelperInit ==
    /\ value = <<>>
    /\ messages = <<>>
    /\ isTyping = FALSE
    /\ conversationId = Null
    /\ pendingFile = Null
    /\ file = Null
    /\ prompt = <<>>
    /\ inflight = {[n |-> 1, kind |-> "create", cid |-> <<>>, message |-> <<>>,
                    file |-> Null, epoch |-> 0, at |-> 0]}
    /\ issued = 1
    /\ epoch = 0
    /\ now = 0
    /\ event \in HelperCalls

callExtractContent ==
    /\ event.op = "call" /\ event.fn = "extractContent"
    /\ event' = [op |-> "extractContent", data |-> event.arg,
                 result |-> extractContent(event.arg)]
    /\ UNCHANGED <<chatVars, homeVars, netVars, epoch, now>>

callToList ==
    /\ event.op = "call" /\ event.fn = "toList"
    /\ event' = [op |-> "toList", val |-> event.arg, result |-> toList(event.arg)]
    /\ UNCHANGED <<chatVars, homeVars, netVars, epoch, now>>

\* createConversation from the parsed body on: the id it returns
callCreateConversation ==
    /\ event.op = "call" /\ event.fn = "createConversation"
    /\ event' = [op |-> "createConversation", data |-> event.arg,
                 result |-> ConversationIdOf(event.arg)]
    /\ UNCHANGED <<chatVars, homeVars, netVars, epoch, now>>

\* MessageBubble: a content of type object is rendered as a report card
renderReportCard ==
    /\ event.op = "extractContent" /\ TypeOf(event.result) = "object"
    /\ event' = [op |-> "ReportCard", report |-> event.result,
                 lists |-> ReportCard(event.result)]
    /\ UNCHANGED <<chatVars, homeVars, netVars, epoch, now>>

HelperNext ==
    callExtractContent \/ callToList \/ callCreateConversation \/ renderReportCard

HelperSpec == HelperInit /\ [][HelperNext]_vars

(***************************************************************************)
(* Properties.                                                             *)
(***************************************************************************)
\* the step answers request r
Answers(r) == r \in inflight /\ r \notin inflight'

IsSend(r) == r.kind \in {"chat", "analyze"}

\* the step is a text send that sendMessage accepted
TextSendStep == event'.op = "sendMessage" /\ event'.outcome = "chat"

\* request r is answered with no other send outstanding, no message appended and
\* no clearChat since it was issued
AnsweredAlone(r) ==
    /\ Answers(r)
    /\ \A q \in inflight \ {r} : ~IsSend(q)
    /\ r.epoch = epoch
    /\ Len(messages) = r.at

C2_FailedSendGivesFallback ==
    (event.op = "sendDone" /\ (~event.reply.net \/ ~event.reply.ok)) =>
        /\ messages # <<>>
        /\ messages[Len(messages)].role = "assistant"
        /\ messages[Len(messages)].content = Str(FallbackText)

\* C3: the answer to a send issued before a Reset appends nothing to the
\* transcript of the session that the Reset started.
C3_StaleAnswerDropped ==
    [][ \A r \in inflight :
           (IsSend(r) /\ Answers(r) /\ r.epoch # epoch) => messages' = messages ]_vars

\* C4: at most one chat or analyze-report request is outstanding.
C4_NoOverlappingSends == Cardinality({r \in inflight : IsSend(r)}) <= 1

\* the step is a call of sendMessage, of the analyzeReport handle
SendMessageStep == event'.op = "sendMessage"
AnalyzeReportStep == event'.op = "analyzeReport"

\* C5: sendMessage with the id unset, or with a blank draft and no attachment,
\* and analyzeReport with the id unset, issue no request and leave transcript,
\* draft, attachment and indicator as they are; every chat or analyze-report
\* request issued carries the set conversation id of the session.
C5_RejectedSendChangesNothing ==
    [][ /\ (SendMessageStep /\ (~Truthy(conversationId)
                                  \/ (Trim(value) = <<>> /\ pendingFile = Null)))
            => /\ event'.outcome = "rejected"
               /\ UNCHANGED <<inflight, messages, value, pendingFile, isTyping>>
        /\ (AnalyzeReportStep /\ ~Truthy(conversationId))
            => /\ event'.outcome = "rejected"
               /\ UNCHANGED <<inflight, messages, value, pendingFile, isTyping>>
        /\ \A r \in inflight' \ inflight : IsSend(r) =>
               /\ r.cid # <<>>
               /\ conversationId = Str(r.cid)
      ]_vars

\* a blank draft was refused in a Ready session
C5_Witness ==
    /\ event.op = "sendMessage" /\ event.outcome = "rejected"
    /\ Truthy(conversationId) /\ value = <<" ">> /\ pendingFile = Null

\* C6: Reset is enabled in every state; right after it the transcript is empty,
\* no attachment is pending, the id is unset and exactly one create-conversation
\* request has been added; when a create-conversation request succeeds the
\* session holds the id of its response.
C6_Reset ==
    [][ /\ issued < MaxRequests => ENABLED clearChat
        /\ event'.op = "clearChat" =>
            /\ messages' = <<>> /\ pendingFile' = Null /\ conversationId' = Null
            /\ \E r \in inflight' \ inflight :
                   /\ r.kind = "create"
                   /\ inflight' = inflight \cup {r}
        /\ \A r \in inflight :
               (r.kind = "create" /\ Answers(r) /\ ~CreateThrows(event'.reply)) =>
                   conversationId' = Get(event'.reply.body, K_conversation_id)
      ]_vars

\* Reset was invoked while a send was outstanding, with an attachment pending
C6_Witness ==
    /\ event.op = "clearChat"
    /\ \E r \in inflight : IsSend(r)
    /\ isTyping
    /\ messages = <<>> /\ conversationId = Null /\ pendingFile = Null

\* C7: between two Resets the id, once set, does not change.
C7_IdAssignedOnce ==
    [][ (epoch' = epoch /\ conversationId # Null) => conversationId' = conversationId ]_vars

C9_SendEnds ==
    /\ \A k \in 1..MaxRequests :
           (\E r \in inflight : r.n = k /\ IsSend(r))
               ~> (event.op = "sendDone" /\ event.n = k /\ ~isTyping)
    /\ [][ /\ event'.op \in {"sendDone", "sendMessage", "analyzeReport"}
                => conversationId' = conversationId
            /\ \A r \in inflight :
                   (IsSend(r) /\ Answers(r) /\ r.epoch = epoch)
                       => (~isTyping' /\ Truthy(conversationId'))
          ]_vars

\* a send that failed has ended: indicator off, id set
C9_Witness ==
    /\ event.op = "sendDone" /\ ~event.reply.net
    /\ ~isTyping /\ Truthy(conversationId)

\* a string, or an object with one of the keys summary, abnormal_findings, urgency
IsContent(c) ==
    \/ c.t = "str"
    \/ /\ c.t = "obj"
       /\ \E j \in 1..Len(c.f) : c.f[j][1] \in {K_summary, K_abnormal_findings, K_urgency}

\* values of every JSON type, with and without the keys of a report
JsonSamples ==
    { Null, Str(<<>>), Str(<<"x">>), Num(7), Bool(FALSE),
      Arr(<<>>), Arr(<<Obj(<< <<K_urgency, Str(<<"l", "o", "w">>)>> >>)>>),
      Arr(<<Num(1), Str(<<"x">>)>>),
      Obj(<<>>),
      Obj(<< <<K_response, Num(1)>>, <<<<"k">>, Null>> >>),
      Obj(<< <<K_summary, Null>> >>),
      Obj(<< <<<<"k">>, Obj(<< <<<<"j">>, Obj(<< <<K_summary, Str(<<"x">>)>> >>)>> >>)>> >>),
      Obj(<< <<<<"k">>, Arr(<<>>)>>, <<<<"d">>, Obj(<< <<K_abnormal_findings, Arr(<<>>)>> >>)>> >>) }

\* C10: the content of every message of the transcript is a string or an object
\* with one of the keys summary, abnormal_findings, urgency, and so is what
\* extractContent returns for a value of any JSON type (a statement about the
\* function alone, evaluated once, in the initial state).
C10_ContentShape ==
    /\ \A i \in 1..Len(messages) : IsContent(messages[i].content)
    /\ event.op = "mount" => \A d \in JsonSamples : IsContent(extractContent(d))

\* the transcript holds a report and a serialised object
C10_Witness ==
    /\ \E i \in 1..Len(messages) : messages[i].content.t = "obj"
    /\ \E i \in 1..Len(messages) :
           /\ messages[i].role = "assistant"
           /\ messages[i].content.t = "str"
           /\ messages[i].content.s # FallbackText

\* extractContent has returned
ExtractCall == event.op = "extractContent"

\* the positions, in the order of the reply keys, of those whose value is a string
StringReplyKeys(d) == {i \in 1..Len(ReplyKeys) : Get(d, ReplyKeys[i]).t = "str"}

\* the least element of a set of numbers
Least(S) == CHOOSE i \in S : \A j \in S : i <= j

\* the positions of the values of d that satisfy the discriminator
NestedReports(d) ==
    {i \in 1..Len(ObjectValues(d)) : isStructuredReport(ObjectValues(d)[i])}

\* C11: for an object with a string-valued field among the reply keys,
\* extractContent returns the string of the first such key in the order
\* response, message, reply, text, content, whatever the other keys hold.
C11_FirstStringReplyKey ==
    (ExtractCall /\ event.data.t = "obj" /\ StringReplyKeys(event.data) # {}) =>
        event.result = Get(event.data, ReplyKeys[Least(StringReplyKeys(event.data))])

\* C12: for an object with a string field named response, extractContent returns
\* that string, whatever the other fields are.
C12_ResponseWins ==
    (ExtractCall /\ event.data.t = "obj" /\ Get(event.data, K_response).t = "str") =>
        event.result = Get(event.data, K_response)

\* an object with a response string and a summary key that holds a report
C12_Witness ==
    /\ ExtractCall
    /\ Get(event.data, K_response) = Str(<<"x">>)
    /\ isStructuredReport(event.data)
    /\ Get(event.data, K_summary) = SummaryReport
    /\ event.result = Str(<<"x">>)

\* C13: extractContent returns a string as it is, and the empty string for null
\* and for undefined.
C13_StringsAsTheyAre ==
    ExtractCall =>
        /\ event.data.t = "str" => event.result = event.data
        /\ event.data \in {Null, Undefined} => event.result = Str(<<>>)

\* a string with white space at both ends came back as it was
C13_Witness ==
    /\ ExtractCall
    /\ event.data = Str(<<" ", "h", "i", "\n">>)
    /\ event.result = Str(<<" ", "h", "i", "\n">>)

\* C14: for an object with no string-valued reply key that satisfies the
\* discriminator and has a value that satisfies it, extractContent returns the
\* object itself.
C14_TopLevelReportWins ==
    (/\ ExtractCall /\ event.data.t = "obj"
     /\ StringReplyKeys(event.data) = {}
     /\ isStructuredReport(event.data)
     /\ NestedReports(event.data) # {}) => event.result = event.data

\* an object with a summary key and, before it, a value that is a report
C14_Witness ==
    /\ ExtractCall
    /\ event.data.t = "obj" /\ Len(event.data.f) = 2
    /\ event.data.f[1] = <<<<"k">>, UrgencyReport>>
    /\ event.data.f[2][1] = K_summary
    /\ event.result = event.data

\* C15: for an object with no string-valued reply key that does not satisfy the
\* discriminator, extractContent returns the first of its values that satisfies
\* it; with no such value it returns a string, also when a report lies deeper.
C15_FirstNestedReport ==
    (/\ ExtractCall /\ event.data.t = "obj"
     /\ StringReplyKeys(event.data) = {}
     /\ ~isStructuredReport(event.data)) =>
        /\ NestedReports(event.data) # {} =>
               event.result = ObjectValues(event.data)[Least(NestedReports(event.data))]
        /\ NestedReports(event.data) = {} => event.result.t = "str"

\* two values of the object are reports and the first of them was returned
C15_Witness ==
    /\ ExtractCall
    /\ event.data.t = "obj" /\ Len(event.data.f) = 2
    /\ event.data.f[1][2] = UrgencyReport
    /\ event.data.f[2][2] = SummaryReport
    /\ ~isStructuredReport(event.data)
    /\ event.result = UrgencyReport

\* C16: extractContent returns for a value of every JSON type, a string or an
\* object; for an object that has no string-valued reply key, is no report and
\* holds none it returns the serialisation of the object, indented by two.
C16_Total ==
    /\ (event.op = "call" /\ event.fn = "extractContent") => ENABLED callExtractContent
    /\ ExtractCall =>
        /\ event.result.t \in {"str", "obj"}
        /\ (/\ event.data.t = "obj"
            /\ StringReplyKeys(event.data) = {}
            /\ ~isStructuredReport(event.data)
            /\ NestedReports(event.data) = {}) =>
                event.result = Str(Stringify(event.data, 0))
        /\ event.data = Obj(<<>>) => event.result = Str(<<"{", "}">>)
        /\ event.data = Obj(<< <<<<"k">>, Num(1)>> >>) =>
               event.result = Str(<<"{", "\n", " ", " ", "\"", "k", "\"", ":", " ", "1",
                                    "\n", "}">>)
        /\ event.data = Num(7) => event.result = Str(<<"7">>)
        /\ event.data = Bool(FALSE) => event.result = Str(<<"f", "a", "l", "s", "e">>)

\* the empty object came back as the text {}
C16_Witness ==
    /\ ExtractCall
    /\ event.data = Obj(<<>>)
    /\ event.result = Str(<<"{", "}">>)

\* toList has returned
ToListCall == event.op = "toList"

\* a segment without its leading bullet marker: a bullet followed by white space
WithoutMarker(s) ==
    IF Len(s) >= 2 /\ IsBullet(s[1]) /\ IsSpace(s[2]) THEN TrimStart(Tail(s)) ELSE s

\* the positions of the entries of a list that are kept: the truthy ones
Kept(e) == {i \in 1..Len(e) : Truthy(e[i])}

\* the k-th kept position
KeptAt(e, k) == CHOOSE i \in Kept(e) : Cardinality({j \in Kept(e) : j < i}) = k - 1

\* C17: for a string, toList returns the segments between newlines and
\* semicolons, each without a leading bullet marker (a bullet character followed
\* by white space, and nothing else) and trimmed, the empty ones dropped, in
\* their order.
C17_StringSegments ==
    (ToListCall /\ event.val.t = "str") =>
        LET segments == Split(event.val.s)
            cleaned == [i \in 1..Len(segments) |->
                           Str(Trim(WithoutMarker(segments[i])))]
        IN  event.result = SelectSeq(cleaned, Truthy)

\* C18: toList of undefined and of the empty string is the empty list; toList of
\* a list is the list of its truthy entries in their order, which holds no empty
\* string and which toList returns as it is; the card of a report with none of
\* the three list fields shows three empty lists.
C18_ListEntries ==
    /\ ToListCall =>
        /\ event.val \in {Undefined, Str(<<>>)} => event.result = <<>>
        /\ \A k \in 1..Len(event.result) : event.result[k] # Str(<<>>)
        /\ event.val.t = "arr" =>
            /\ Len(event.result) = Cardinality(Kept(event.val.e))
            /\ \A k \in 1..Len(event.result) :
                   event.result[k] = event.val.e[KeptAt(event.val.e, k)]
            /\ toList(Arr(event.result)) = event.result
    /\ (ExtractCall /\ event.data = SummaryReport) => event.result = SummaryReport
    /\ (/\ event.op = "ReportCard"
        /\ ~HasKey(event.report, K_abnormal_findings)
        /\ ~HasKey(event.report, K_recommended_tests)
        /\ ~HasKey(event.report, K_lifestyle_suggestions)) =>
            /\ event.lists.abnormal = <<>>
            /\ event.lists.tests = <<>>
            /\ event.lists.lifestyle = <<>>

\* a list with an empty entry between two others came back without it
C18_Witness ==
    /\ ToListCall
    /\ event.val = Arr(<<Str(<<"x">>), Str(<<>>), Str(<<"y">>)>>)
    /\ event.result = <<Str(<<"x">>), Str(<<"y">>)>>

\* the step is a report-analysis send of file f with prompt p that was accepted,
\* from the chat input or from the handle
AnalysisSendStep(f, p) ==
    \/ /\ event'.op = "sendMessage" /\ event'.outcome = "analyze"
       /\ f = pendingFile /\ p = Trim(value)
    \/ /\ event'.op = "analyzeReport" /\ event'.outcome = "analyze"
       /\ f = event'.file /\ p = event'.message

\* C19: an accepted report-analysis send happens with the id set; it appends a
\* user message with the name of the file and, as content, the prompt, or the
\* default prompt when the prompt is empty, and adds one analyze-report request
\* for the current conversation id with the file and the prompt (a default
\* prompt when it is empty); the answer to that request is handled as the
\* answer to a text send is: one assistant message, the normalized body of a
\* 2xx response or the fallback text after a failure in transport, the id left
\* set and the indicator off.
C19_AnalysisSend ==
    [][ /\ \A f \in ChatFiles : \A p \in HandlePrompts \cup {Trim(value)} :
            AnalysisSendStep(f, p) =>
                /\ Truthy(conversationId)
                /\ messages' = Append(messages,
                       [id |-> NumToText(now'), role |-> "user",
                        content |-> Str(IF p = <<>> THEN DefaultShownPrompt ELSE p),
                        fileName |-> Str(f.name)])
                /\ \E r \in inflight' \ inflight :
                       /\ r.kind = "analyze" /\ r.cid = conversationId.s
                       /\ r.file = f
                       /\ r.message = (IF p = <<>> THEN DefaultSentPrompt ELSE p)
                       /\ inflight' = inflight \cup {r}
        /\ \A r \in inflight : (r.kind = "analyze" /\ AnsweredAlone(r)) =>
            LET reply == event'.reply
                last == messages'[Len(messages')]
            IN  /\ Len(messages') = r.at + 1
                /\ SubSeq(messages', 1, r.at) = messages
                /\ messages[r.at].role = "user"
                /\ messages[r.at].fileName = Str(r.file.name)
                /\ last.role = "assistant"
                /\ SendThrows(reply) => last.content = Str(FallbackText)
                /\ (~SendThrows(reply) /\ reply.ok) =>
                       last.content = extractContent(reply.body)
                /\ Truthy(conversationId') /\ conversationId' = conversationId
                /\ ~isTyping'
      ]_vars

\* a report sent with an empty prompt from the chat input has been answered
C19_Witness ==
    /\ event.op = "sendDone" /\ event.reply.net /\ event.reply.ok
    /\ Len(messages) = 2
    /\ messages[1].role = "user" /\ messages[1].fileName = Str(PngFile.name)
    /\ messages[1].content = Str(DefaultShownPrompt)
    /\ messages[2].role = "assistant" /\ messages[2].content = SummaryReport
    /\ Truthy(conversationId) /\ ~isTyping

\* C20: the messages of the transcript have pairwise distinct ids.
C20_UniqueIds ==
    \A i, j \in 1..Len(messages) : i # j => messages[i].id # messages[j].id

\* C21: every step other than a Reset keeps the messages of the transcript, in
\* their order, and adds messages at its end only; the bubbles are laid out in
\* the order of the transcript.
C21_AppendOnly ==
    [][ /\ event'.op # "clearChat" =>
            /\ Len(messages') >= Len(messages)
            /\ SubSeq(messages', 1, Len(messages)) = messages
        /\ Len(Bubbles') = Len(messages')
        /\ \A i \in 1..Len(messages') : Bubbles'[i].msg = messages'[i]
      ]_vars

\* two questions were asked before the first answer came, and both answers
\* were added after them
C21_Witness ==
    /\ event.op = "sendDone"
    /\ Len(messages) = 4
    /\ messages[1].role = "user" /\ messages[2].role = "user"
    /\ messages[3].role = "assistant" /\ messages[4].role = "assistant"

\* the positions in the chain of the keys that carry a value in the body d
Carrying(d) == {i \in 1..Len(IdKeys) : Get(d, IdKeys[i]) \notin {Null, Undefined}}

\* C22: the id is the text of the value of the first of conversation_id, id, _id
\* that carries a value; when none does, of the first field of the response.
C22_IdFallback ==
    event.op = "createConversation" =>
        /\ Carrying(event.data) # {} =>
               event.result = ToText(Get(event.data, IdKeys[Least(Carrying(event.data))]))
        /\ (Carrying(event.data) = {} /\ event.data.f # <<>>) =>
               event.result = ToText(event.data.f[1][2])

\* conversation_id and id hold null, _id holds the id, another field comes first
C22_Witness ==
    /\ event.op = "createConversation"
    /\ event.data = NullsFirstBody
    /\ event.result = <<"b">>

\* C23: the file selected in the left panel, the file pending in the chat and
\* the file of every analyze-report request have one of the content types
\* image/png, image/jpeg, image/webp.
C23_AcceptedTypesOnly ==
    /\ file # Null => file.type \in AcceptedTypes
    /\ pendingFile # Null => pendingFile.type \in AcceptedTypes
    /\ \A r \in inflight : r.kind = "analyze" => r.file.type \in AcceptedTypes

\* C24: the typing indicator is on exactly when a chat or analyze-report request
\* is outstanding.
C24_TypingIffOutstanding == isTyping <=> (\E r \in inflight : IsSend(r))

\* the id the service created for the most recent create-conversation request
LatestId == Str(<<"c">> \o NumToText(epoch + 1))

\* C25: when the last outstanding create-conversation request is answered with
\* an id, and the most recent one has been answered with its id (it is this
\* request, or the session holds its id), the session holds the id of the most
\* recent request.
C25_LatestCreateWins ==
    [][ \A r \in inflight :
           (/\ r.kind = "create" /\ Answers(r)
            /\ \A q \in inflight \ {r} : q.kind # "create"
            /\ ~CreateThrows(event'.reply)
            /\ (r.epoch = epoch \/ conversationId = LatestId))
               => conversationId' = LatestId ]_vars

\* the body of a create-conversation response carries no id to use
NoUsableId(body) == body.t = "obj" /\ body.f = <<>>

\* C26: the answer to a create-conversation request that carries no usable id
\* leaves an unset id unset and the send button disabled.
C26_NoUsableId ==
    [][ \A r \in inflight :
           (/\ r.kind = "create" /\ Answers(r)
            /\ event'.reply.net /\ event'.reply.json
            /\ NoUsableId(event'.reply.body)
            /\ conversationId = Null)
               => (conversationId' = Null /\ ~canSend') ]_vars

\* the step is a report-analysis send that was accepted, from the chat input or
\* from the Analyze button of the left panel
AnalysisStarted ==
    event'.op \in {"sendMessage", "handleAnalyze"} /\ event'.outcome = "analyze"

\* C27: the content of the user message of a report-analysis send is the text
\* of the message field of its request.
C27_ShownIsSent ==
    [][ AnalysisStarted =>
            \E r \in inflight' \ inflight :
                /\ r.kind = "analyze"
                /\ messages'[Len(messages')].content = Str(r.message) ]_vars

\* C28: a click on Analyze with a file selected either issues an analyze-report
\* request for the file and appends a user message with its name, or leaves the
\* file and the note of the left panel as they are.
C28_AnalyzeKeepsReport ==
    [][ event'.op = "handleAnalyze" =>
            \/ /\ \E r \in inflight' \ inflight : r.kind = "analyze" /\ r.file = file
               /\ Len(messages') = Len(messages) + 1
               /\ messages'[Len(messages')].fileName = Str(file.name)
            \/ /\ file' = file
               /\ prompt' = prompt ]_vars

\* the send is accepted by sendMessage (as far as the model lets requests go)
SendAccepted ==
    /\ Truthy(conversationId)
    /\ Trim(value) # <<>> \/ pendingFile # Null
    /\ issued < MaxRequests

\* C29: sendMessage with a pending attachment, when accepted, adds one
\* analyze-report request with that file and no other request, and leaves no
\* attachment pending and the draft empty while the request is outstanding;
\* without a pending attachment it adds one chat request with the trimmed text
\* and no other, empties the draft and leaves the attachment as it is.
C29_SendMessageEffects ==
    [][ SendMessageStep =>
          /\ SendAccepted =>
                event'.outcome = (IF pendingFile # Null THEN "analyze" ELSE "chat")
          /\ event'.outcome = "analyze" =>
                /\ pendingFile # Null
                /\ \E r \in inflight' \ inflight :
                       /\ r.kind = "analyze" /\ r.file = pendingFile
                       /\ inflight' = inflight \cup {r}
                /\ pendingFile' = Null
                /\ value' = <<>>
          /\ event'.outcome = "chat" =>
                /\ pendingFile = Null
                /\ \E r \in inflight' \ inflight :
                       /\ r.kind = "chat" /\ r.message = Trim(value)
                       /\ inflight' = inflight \cup {r}
                /\ value' = <<>>
                /\ pendingFile' = pendingFile
      ]_vars

\* a draft with a pending attachment was sent: the request is outstanding, no
\* attachment is pending, the draft is empty
C29_Witness ==
    /\ event.op = "sendMessage" /\ event.outcome = "analyze"
    /\ \E r \in inflight : r.kind = "analyze" /\ r.message = <<"h", "i">>
    /\ pendingFile = Null /\ value = <<>>

====
